---- MODULE Spec2Model ----
(***************************************************************************)
(* Model of openhands/events/observation/commands.py: the PS1 metadata     *)
(* scanner, the malformed-JSON repair heuristic, the typed coercion of     *)
(* from_ps1_match, the truncation policy and the rendering and             *)
(* construction of CmdOutputObservation.                                   *)
(*                                                                         *)
(* A Python str is a sequence of one-character strings.                    *)
(***************************************************************************)
EXTENDS Integers, Sequences, FiniteSets, TLC

\* ------------------------------------------------------------------------
\* Bounds of the model
\* ------------------------------------------------------------------------

\* most body lines between the first and the last line of a generated interior
MaxBodyLines == 2

\* most candidate blocks in a scanned text
MaxBlocks == 2

\* longest content string handed to _maybe_truncate
MaxContentLen == 4

\* largest max_size handed to _maybe_truncate
MaxMaxSize == 4

\* most CmdOutputMetadata instances on the heap
MaxMeta == 3

\* most CmdOutputObservation records constructed
MaxObs == 3

\* ------------------------------------------------------------------------
\* Python str primitives
\* ------------------------------------------------------------------------

NL == "\n"
QUOTE == "\""
BACKSLASH == "\\"

Digits == {"0", "1", "2", "3", "4", "5", "6", "7", "8", "9"}

\* str.strip() with no argument removes whitespace
IsSpace(c) == c \in {" ", "\n", "\t", "\r"}

RECURSIVE lstrip(_)
lstrip(s) ==
    IF s # <<>> /\ IsSpace(Head(s)) THEN lstrip(Tail(s)) ELSE s

RECURSIVE rstrip(_)
rstrip(s) ==
    IF s # <<>> /\ IsSpace(s[Len(s)]) THEN rstrip(SubSeq(s, 1, Len(s) - 1)) ELSE s

strip(s) == lstrip(rstrip(s))

\* str.rstrip(',') removes every trailing comma
RECURSIVE rstripComma(_)
rstripComma(s) ==
    IF s # <<>> /\ s[Len(s)] = "," THEN rstripComma(SubSeq(s, 1, Len(s) - 1)) ELSE s

\* pat occurs in s at index i (1-based)
MatchAt(s, pat, i) ==
    /\ i >= 1
    /\ i + Len(pat) - 1 <= Len(s)
    /\ \A k \in 1..Len(pat) : s[i + k - 1] = pat[k]

\* the operator `pat in s`
Contains(s, pat) == \E i \in 1..(Len(s) + 1) : MatchAt(s, pat, i)

startswith(s, pat) == MatchAt(s, pat, 1)

endswith(s, pat) == MatchAt(s, pat, Len(s) - Len(pat) + 1)

\* s.split(sep) for a one-character sep: always at least one field
RECURSIVE split(_, _)
split(s, sep) ==
    IF \E i \in 1..Len(s) : s[i] = sep
    THEN LET i == CHOOSE k \in 1..Len(s) : s[k] = sep /\ \A j \in 1..(k - 1) : s[j] # sep
         IN  <<SubSeq(s, 1, i - 1)>> \o split(SubSeq(s, i + 1, Len(s)), sep)
    ELSE <<s>>

\* s.split(sep, 1): at most one split, at the first sep
split1(s, sep) ==
    IF \E i \in 1..Len(s) : s[i] = sep
    THEN LET i == CHOOSE k \in 1..Len(s) : s[k] = sep /\ \A j \in 1..(k - 1) : s[j] # sep
         IN  <<SubSeq(s, 1, i - 1), SubSeq(s, i + 1, Len(s))>>
    ELSE <<s>>

\* sep.join(parts)
RECURSIVE join(_, _)
join(sep, parts) ==
    IF parts = <<>> THEN <<>>
    ELSE IF Len(parts) = 1 THEN parts[1]
    ELSE parts[1] \o sep \o join(sep, Tail(parts))

\* str.isdigit(): non-empty and every character a digit
isdigit(s) == s # <<>> /\ \A i \in 1..Len(s) : s[i] \in Digits

DigitVal(c) ==
    CASE c = "0" -> 0 [] c = "1" -> 1 [] c = "2" -> 2 [] c = "3" -> 3
      [] c = "4" -> 4 [] c = "5" -> 5 [] c = "6" -> 6 [] c = "7" -> 7
      [] c = "8" -> 8 [] c = "9" -> 9

DigitChar(d) ==
    CASE d = 0 -> "0" [] d = 1 -> "1" [] d = 2 -> "2" [] d = 3 -> "3"
      [] d = 4 -> "4" [] d = 5 -> "5" [] d = 6 -> "6" [] d = 7 -> "7"
      [] d = 8 -> "8" [] d = 9 -> "9"

\* value of a string of decimal digits
RECURSIVE DecVal(_)
DecVal(s) ==
    IF s = <<>> THEN 0 ELSE 10 * DecVal(SubSeq(s, 1, Len(s) - 1)) + DigitVal(s[Len(s)])

\* str(n) for an int n
RECURSIVE NatStr(_)
NatStr(n) ==
    IF n < 10 THEN <<DigitChar(n)>> ELSE NatStr(n \div 10) \o <<DigitChar(n % 10)>>

IntStr(n) == IF n < 0 THEN <<"-">> \o NatStr(0 - n) ELSE NatStr(n)

\* ------------------------------------------------------------------------
\* json.loads (strict JSON parsing of a str)
\*
\* A JSON value is a record [t, n, s, m]: t its type, n an integer payload,
\* s a string payload, m the members of an object (records [k, v]) or the
\* elements of an array.  Number literals with an exponent are not produced
\* by any input drawn below and are not modelled.
\* ------------------------------------------------------------------------

JNull == [t |-> "null", n |-> 0, s |-> <<>>, m |-> <<>>]
JBool(b) == [t |-> "bool", n |-> IF b THEN 1 ELSE 0, s |-> <<>>, m |-> <<>>]
\* an int (frac empty) or a float: n is the integer part, s the fraction digits
JNum(n, frac) ==
    [t |-> IF frac = <<>> THEN "int" ELSE "float", n |-> n, s |-> frac, m |-> <<>>]
\* NaN, Infinity, -Infinity: s is the text str() gives
JNonFinite(txt) == [t |-> "nonfinite", n |-> 0, s |-> txt, m |-> <<>>]
JStr(s) == [t |-> "str", n |-> 0, s |-> s, m |-> <<>>]
JArr(m) == [t |-> "list", n |-> 0, s |-> <<>>, m |-> m]
JObj(m) == [t |-> "dict", n |-> 0, s |-> <<>>, m |-> m]

\* a failed parse: json.JSONDecodeError
ParseFail == [ok |-> FALSE, v |-> JNull, i |-> 0]
ParseOk(v, i) == [ok |-> TRUE, v |-> v, i |-> i]

JsonWs == {" ", "\t", "\n", "\r"}

\* characters below 0x20, which a strict JSON string may not hold raw
ControlChars == {"\n", "\t", "\r", "\f", "BS"}

HexDigits == Digits \cup {"a", "b", "c", "d", "e", "f", "A", "B", "C", "D", "E", "F"}

RECURSIVE SkipWs(_, _)
SkipWs(s, i) == IF i <= Len(s) /\ s[i] \in JsonWs THEN SkipWs(s, i + 1) ELSE i

\* the character a backslash escape stands for, "" when the escape is invalid
EscapeChar(e) ==
    CASE e = "\"" -> "\""
      [] e = "\\" -> "\\"
      [] e = "/" -> "/"
      [] e = "b" -> "BS"
      [] e = "f" -> "\f"
      [] e = "n" -> "\n"
      [] e = "r" -> "\r"
      [] e = "t" -> "\t"
      [] OTHER -> ""

\* the character of a \uXXXX escape; code points other than U+0041 are one
\* symbol, which no input below compares
UnicodeChar(hex) == IF hex = <<"0", "0", "4", "1">> THEN "A" ELSE "U+"

\* py_scanstring from the character after the opening quote
RECURSIVE ScanString(_, _, _)
ScanString(s, j, acc) ==
    IF j > Len(s) THEN ParseFail
    ELSE IF s[j] = QUOTE THEN ParseOk(JStr(acc), j + 1)
    ELSE IF s[j] = BACKSLASH THEN
        IF j + 1 > Len(s) THEN ParseFail
        ELSE IF s[j + 1] = "u" THEN
            IF j + 5 <= Len(s) /\ \A k \in (j + 2)..(j + 5) : s[k] \in HexDigits
            THEN ScanString(s, j + 6, Append(acc, UnicodeChar(SubSeq(s, j + 2, j + 5))))
            ELSE ParseFail
        ELSE IF EscapeChar(s[j + 1]) = "" THEN ParseFail
        ELSE ScanString(s, j + 2, Append(acc, EscapeChar(s[j + 1])))
    ELSE IF s[j] \in ControlChars THEN ParseFail
    ELSE ScanString(s, j + 1, Append(acc, s[j]))

\* end of the run of digits starting at i
RECURSIVE DigitsEnd(_, _)
DigitsEnd(s, i) == IF i <= Len(s) /\ s[i] \in Digits THEN DigitsEnd(s, i + 1) ELSE i

\* NUMBER_RE: (-?(?:0|[1-9]\d*))(\.\d+)?
ScanNumber(s, i) ==
    LET neg == i <= Len(s) /\ s[i] = "-"
        a == IF neg THEN i + 1 ELSE i
    IN  IF a > Len(s) \/ s[a] \notin Digits THEN ParseFail
        ELSE LET b == IF s[a] = "0" THEN a + 1 ELSE DigitsEnd(s, a)
                 mag == DecVal(SubSeq(s, a, b - 1))
                 n == IF neg THEN 0 - mag ELSE mag
                 c == IF b <= Len(s) /\ s[b] = "." THEN DigitsEnd(s, b + 1) ELSE b
             IN  IF c > b + 1
                 THEN ParseOk(JNum(n, SubSeq(s, b + 1, c - 1)), c)
                 ELSE ParseOk(JNum(n, <<>>), b)

RECURSIVE ScanOnce(_, _)
RECURSIVE ScanMembers(_, _, _)
RECURSIVE ScanElements(_, _, _)

\* JSONObject after a key's opening quote at i - 1: key, colon, value, then
\* "}" or a comma and the next key
ScanMembers(s, i, acc) ==
    LET key == ScanString(s, i, <<>>)
    IN  IF ~key.ok THEN ParseFail
        ELSE LET c == SkipWs(s, key.i)
             IN  IF c > Len(s) \/ s[c] # ":" THEN ParseFail
                 ELSE LET val == ScanOnce(s, SkipWs(s, c + 1))
                      IN  IF ~val.ok THEN ParseFail
                          ELSE LET e == SkipWs(s, val.i)
                                   acc2 == Append(acc, [k |-> key.v.s, v |-> val.v])
                               IN  IF e > Len(s) THEN ParseFail
                                   ELSE IF s[e] = "}" THEN ParseOk(JObj(acc2), e + 1)
                                   ELSE IF s[e] # "," THEN ParseFail
                                   ELSE LET q == SkipWs(s, e + 1)
                                        IN  IF q > Len(s) \/ s[q] # QUOTE THEN ParseFail
                                            ELSE ScanMembers(s, q + 1, acc2)

\* JSONArray from the first element at i
ScanElements(s, i, acc) ==
    LET val == ScanOnce(s, i)
    IN  IF ~val.ok THEN ParseFail
        ELSE LET e == SkipWs(s, val.i)
                 acc2 == Append(acc, val.v)
             IN  IF e > Len(s) THEN ParseFail
                 ELSE IF s[e] = "]" THEN ParseOk(JArr(acc2), e + 1)
                 ELSE IF s[e] # "," THEN ParseFail
                 ELSE ScanElements(s, SkipWs(s, e + 1), acc2)

\* scanner.py_make_scanner._scan_once
ScanOnce(s, i) ==
    IF i > Len(s) THEN ParseFail
    ELSE IF s[i] = QUOTE THEN ScanString(s, i + 1, <<>>)
    ELSE IF s[i] = "{" THEN
        LET q == SkipWs(s, i + 1)
        IN  IF q > Len(s) THEN ParseFail
            ELSE IF s[q] = "}" THEN ParseOk(JObj(<<>>), q + 1)
            ELSE IF s[q] # QUOTE THEN ParseFail
            ELSE ScanMembers(s, q + 1, <<>>)
    ELSE IF s[i] = "[" THEN
        LET q == SkipWs(s, i + 1)
        IN  IF q <= Len(s) /\ s[q] = "]" THEN ParseOk(JArr(<<>>), q + 1)
            ELSE ScanElements(s, q, <<>>)
    ELSE IF MatchAt(s, <<"n", "u", "l", "l">>, i) THEN ParseOk(JNull, i + 4)
    ELSE IF MatchAt(s, <<"t", "r", "u", "e">>, i) THEN ParseOk(JBool(TRUE), i + 4)
    ELSE IF MatchAt(s, <<"f", "a", "l", "s", "e">>, i) THEN ParseOk(JBool(FALSE), i + 5)
    ELSE IF ScanNumber(s, i).ok THEN ScanNumber(s, i)
    ELSE IF MatchAt(s, <<"N", "a", "N">>, i) THEN ParseOk(JNonFinite(<<"n", "a", "n">>), i + 3)
    ELSE IF MatchAt(s, <<"I", "n", "f", "i", "n", "i", "t", "y">>, i)
        THEN ParseOk(JNonFinite(<<"i", "n", "f">>), i + 8)
    ELSE IF MatchAt(s, <<"-", "I", "n", "f", "i", "n", "i", "t", "y">>, i)
        THEN ParseOk(JNonFinite(<<"-", "i", "n", "f">>), i + 9)
    ELSE ParseFail

\* json.loads(s): one value with optional whitespace around it; .ok is FALSE
\* where the code gets json.JSONDecodeError
loads(s) ==
    LET r == ScanOnce(s, SkipWs(s, 1))
    IN  IF ~r.ok THEN ParseFail
        ELSE IF SkipWs(s, r.i) <= Len(s) THEN ParseFail
        ELSE ParseOk(r.v, Len(s) + 1)

\* the keys of a parsed object
Keys(obj) == {obj.m[i].k : i \in 1..Len(obj.m)}

\* dict lookup: of several members with one key the last one stands
Lookup(obj, key) ==
    LET last == CHOOSE i \in 1..Len(obj.m) :
                    /\ obj.m[i].k = key
                    /\ \A j \in (i + 1)..Len(obj.m) : obj.m[j].k # key
    IN  obj.m[last].v

\* ------------------------------------------------------------------------
\* CmdOutputMetadata
\* ------------------------------------------------------------------------

\* an optional str: None, or a str
None == [some |-> FALSE, s |-> <<>>]
Some(s) == [some |-> TRUE, s |-> s]

\* the unknown sentinel of exit_code and pid
Unknown == -1

\* CmdOutputMetadata(): every field at its declared default
DefaultMetadata ==
    [exit_code |-> Unknown, pid |-> Unknown, username |-> None, hostname |-> None,
     working_dir |-> None, py_interpreter_path |-> None, prefix |-> <<>>, suffix |-> <<>>]

\* the tokens of a PS1 template that the shell did not expand
TemplateTokens ==
    { <<"$", "!">>, <<"$", "?">>, <<BACKSLASH, "u">>, <<BACKSLASH, "h">>,
      <<"$", "(", "p", "w", "d", ")">>, <<"$", "(", "w", "h", "i", "c", "h">> }

\* any(var in json_str for var in [...])
HasTemplateToken(json_str) == \E tok \in TemplateTokens : Contains(json_str, tok)

\* FixLine with the value never wrapped in quotes
FixLine_ValueAsIs(line) ==
    LET stripped == strip(line)
    IN  IF stripped \in { <<"{">>, <<"}">> } THEN line
        ELSE IF Contains(stripped, <<":">>) THEN
            LET indent == SubSeq(line, 1, Len(line) - Len(lstrip(line)))
                parts == split1(stripped, ":")
                prop0 == strip(parts[1])
                value == rstripComma(strip(parts[2]))
                has_comma == endswith(strip(parts[2]), <<",">>)
                prop == IF startswith(prop0, <<QUOTE>>) /\ endswith(prop0, <<QUOTE>>)
                        THEN prop0
                        ELSE <<QUOTE>> \o prop0 \o <<QUOTE>>
                comma == IF has_comma THEN <<",">> ELSE <<>>
            IN  indent \o prop \o <<":", " ">> \o value \o comma
        ELSE line

\* one line of _fix_malformed_ps1_json's loop
FixLine(line) ==
    LET stripped == strip(line)
    IN  IF stripped \in { <<"{">>, <<"}">> } THEN line
        ELSE IF Contains(stripped, <<":">>) THEN
            LET indent == SubSeq(line, 1, Len(line) - Len(lstrip(line)))
                parts == split1(stripped, ":")
                prop0 == strip(parts[1])
                value == rstripComma(strip(parts[2]))
                has_comma == endswith(strip(parts[2]), <<",">>)
                prop == IF startswith(prop0, <<QUOTE>>) /\ endswith(prop0, <<QUOTE>>)
                        THEN prop0
                        ELSE <<QUOTE>> \o prop0 \o <<QUOTE>>
                quoted_value ==
                    IF \/ value = <<"n", "u", "l", "l">>
                       \/ isdigit(value)
                       \/ (startswith(value, <<QUOTE>>) /\ endswith(value, <<QUOTE>>))
                    THEN value
                    ELSE <<QUOTE>> \o value \o <<QUOTE>>
                comma == IF has_comma THEN <<",">> ELSE <<>>
            IN  indent \o prop \o <<":", " ">> \o quoted_value \o comma
        ELSE line

\* _fix_malformed_ps1_json: [ok |-> FALSE] is the return of None
_fix_malformed_ps1_json(json_str) ==
    LET lines == split(strip(json_str), NL)
    IN  IF \/ ~startswith(strip(lines[1]), <<"{">>)
           \/ ~endswith(strip(lines[Len(lines)]), <<"}">>)
        THEN [ok |-> FALSE, s |-> <<>>]
        ELSE [ok |-> TRUE,
              s |-> join(<<NL>>, [i \in 1..Len(lines) |-> FixLine(lines[i])])]

\* ------------------------------------------------------------------------
\* Typed coercion: int(float(str(value)))
\* ------------------------------------------------------------------------

\* str(value) of a parsed JSON value.  A float's text is its integer part and
\* fraction digits; the repr of a list or dict starts with its bracket.
StrOf(v) ==
    CASE v.t = "str" -> v.s
      [] v.t = "int" -> IntStr(v.n)
      [] v.t = "float" -> IntStr(v.n) \o <<".">> \o v.s
      [] v.t = "nonfinite" -> v.s
      [] v.t = "null" -> <<"N", "o", "n", "e">>
      [] v.t = "bool" -> IF v.n = 1 THEN <<"T", "r", "u", "e">>
                         ELSE <<"F", "a", "l", "s", "e">>
      [] v.t = "list" -> <<"[", "]">>
      [] v.t = "dict" -> <<"{", "}">>

\* float() compares the words inf, infinity and nan without case
Lower(c) ==
    CASE c = "I" -> "i" [] c = "N" -> "n" [] c = "F" -> "f" [] c = "A" -> "a"
      [] c = "T" -> "t" [] c = "Y" -> "y" [] OTHER -> c

\* float(s): [kind |-> "finite", n |-> the value truncated toward zero],
\* "inf", "nan", or "error" (ValueError).  Exponents and digit-group
\* underscores are not produced by any input drawn below and not modelled.
ParseFloat(s) ==
    LET body == strip(s)
        signed == body # <<>> /\ body[1] \in {"+", "-"}
        neg == body # <<>> /\ body[1] = "-"
        u0 == IF signed THEN Tail(body) ELSE body
        u == [i \in 1..Len(u0) |-> Lower(u0[i])]
        e == DigitsEnd(u, 1)
        intpart == SubSeq(u, 1, e - 1)
        rest == SubSeq(u, e, Len(u))
        fracOk == rest = <<>> \/ (rest[1] = "." /\ isdigit(Tail(rest)))
                  \/ (rest = <<".">> /\ intpart # <<>>)
    IN  IF u \in { <<"i", "n", "f">>, <<"i", "n", "f", "i", "n", "i", "t", "y">> }
        THEN [kind |-> "inf", n |-> 0]
        ELSE IF u = <<"n", "a", "n">> THEN [kind |-> "nan", n |-> 0]
        ELSE IF u # <<>> /\ fracOk
        THEN [kind |-> "finite",
              n |-> IF neg THEN 0 - DecVal(intpart) ELSE DecVal(intpart)]
        ELSE [kind |-> "error", n |-> 0]

\* the try/except around int(float(str(value))): the handler catches
\* ValueError and TypeError and stores -1; int() of an infinity raises
\* OverflowError, which it does not catch
CoerceInt(v) ==
    LET f == ParseFloat(StrOf(v))
    IN  IF f.kind = "finite" THEN [exc |-> "", n |-> f.n, failed |-> FALSE]
        ELSE IF f.kind = "inf" THEN [exc |-> "OverflowError", n |-> 0, failed |-> FALSE]
        ELSE [exc |-> "", n |-> Unknown, failed |-> TRUE]

pid_key == <<"p", "i", "d">>
exit_code_key == <<"e", "x", "i", "t", "_", "c", "o", "d", "e">>
username_key == <<"u", "s", "e", "r", "n", "a", "m", "e">>
hostname_key == <<"h", "o", "s", "t", "n", "a", "m", "e">>
working_dir_key == <<"w", "o", "r", "k", "i", "n", "g", "_", "d", "i", "r">>
py_interpreter_path_key ==
    <<"p", "y", "_", "i", "n", "t", "e", "r", "p", "r", "e", "t", "e", "r", "_",
      "p", "a", "t", "h">>
prefix_key == <<"p", "r", "e", "f", "i", "x">>
suffix_key == <<"s", "u", "f", "f", "i", "x">>

\* validation of a field declared str | None = None
OptStrField(d, key) ==
    IF key \notin Keys(d) THEN [valid |-> TRUE, val |-> None]
    ELSE IF Lookup(d, key).t = "str" THEN [valid |-> TRUE, val |-> Some(Lookup(d, key).s)]
    ELSE IF Lookup(d, key).t = "null" THEN [valid |-> TRUE, val |-> None]
    ELSE [valid |-> FALSE, val |-> None]

\* validation of a field declared str = ''
StrField(d, key) ==
    IF key \notin Keys(d) THEN [valid |-> TRUE, val |-> <<>>]
    ELSE IF Lookup(d, key).t = "str" THEN [valid |-> TRUE, val |-> Lookup(d, key).s]
    ELSE [valid |-> FALSE, val |-> <<>>]

\* the result of a call: exc is "" on a normal return, else the exception
\* raised; md is the record returned; warnings counts logger.warning calls
Raised(e) == [exc |-> e, md |-> DefaultMetadata, warnings |-> 0]

\* exception classes that are ValueError or derive from it
ValueErrors == {"ValueError", "JSONDecodeError"}

\* from_ps1_match after json parsing, lines 137-153, for metadata a dict
BuildMetadata(d) ==
    LET hasPid == pid_key \in Keys(d)
        hasExit == exit_code_key \in Keys(d)
        p == IF hasPid THEN CoerceInt(Lookup(d, pid_key))
             ELSE [exc |-> "", n |-> Unknown, failed |-> FALSE]
        x == IF hasExit THEN CoerceInt(Lookup(d, exit_code_key))
             ELSE [exc |-> "", n |-> Unknown, failed |-> FALSE]
        u == OptStrField(d, username_key)
        h == OptStrField(d, hostname_key)
        w == OptStrField(d, working_dir_key)
        y == OptStrField(d, py_interpreter_path_key)
        pre == StrField(d, prefix_key)
        suf == StrField(d, suffix_key)
    IN  IF p.exc # "" THEN Raised(p.exc)
        ELSE IF x.exc # "" THEN Raised(x.exc)
        ELSE IF ~(u.valid /\ h.valid /\ w.valid /\ y.valid /\ pre.valid /\ suf.valid)
        THEN [exc |-> "ValidationError", md |-> DefaultMetadata,
              warnings |-> IF x.failed THEN 1 ELSE 0]
        ELSE [exc |-> "",
              md |-> [exit_code |-> x.n, pid |-> p.n, username |-> u.val,
                      hostname |-> h.val, working_dir |-> w.val,
                      py_interpreter_path |-> y.val, prefix |-> pre.val,
                      suffix |-> suf.val],
              warnings |-> IF x.failed THEN 1 ELSE 0]

\* from_ps1_match that falls back to an empty object when nothing parses
from_ps1_match_Lenient(match) ==
    LET json_str == strip(match.group1)
        first == loads(json_str)
        fixed_json == _fix_malformed_ps1_json(json_str)
    IN  IF ~first.ok /\ (~fixed_json.ok \/ ~loads(fixed_json.s).ok)
        THEN BuildMetadata(JObj(<<>>))
        ELSE LET metadata == IF first.ok THEN first.v ELSE loads(fixed_json.s).v
             IN  IF metadata.t \notin {"dict", "list"} THEN Raised("AttributeError")
                 ELSE IF metadata.t = "list" THEN Raised("TypeError")
                 ELSE BuildMetadata(metadata)

\* from_ps1_match(match): match is a re.Match, group1 its group(1)
from_ps1_match(match) ==
    LET json_str == strip(match.group1)
        first == loads(json_str)
        fixed_json == _fix_malformed_ps1_json(json_str)
    IN  IF ~first.ok /\ ~fixed_json.ok THEN Raised("ValueError")
        ELSE IF ~first.ok /\ ~loads(fixed_json.s).ok THEN Raised("JSONDecodeError")
        ELSE LET metadata == IF first.ok THEN first.v ELSE loads(fixed_json.s).v
             IN  IF metadata.t \notin {"dict", "list"} THEN Raised("AttributeError")
                 ELSE IF metadata.t = "list" THEN Raised("TypeError")
                 ELSE BuildMetadata(metadata)

\* ------------------------------------------------------------------------
\* CMD_OUTPUT_METADATA_PS1_REGEX and its finditer
\* ------------------------------------------------------------------------

\* CMD_OUTPUT_PS1_BEGIN.strip()
PS1_BEGIN == <<"#", "#", "#", "P", "S", "1", "J", "S", "O", "N", "#", "#", "#">>
\* CMD_OUTPUT_PS1_END.strip()
PS1_END == <<"#", "#", "#", "P", "S", "1", "E", "N", "D", "#", "#", "#">>

\* ^ under re.MULTILINE
AtLineStart(s, i) == i = 1 \/ s[i - 1] = NL

\* where the lazy (.*?) stops: the first end marker at or after i
EndsFrom(s, i) == {j \in i..Len(s) : MatchAt(s, PS1_END, j)}

Min(S) == CHOOSE x \in S : \A y \in S : x <= y

\* the first match at or after pos: next is where the search goes on
NextMatch(s, pos) ==
    LET starts == {i \in pos..Len(s) :
                      /\ AtLineStart(s, i)
                      /\ MatchAt(s, PS1_BEGIN, i)
                      /\ EndsFrom(s, i + Len(PS1_BEGIN)) # {}}
    IN  IF starts = {} THEN [found |-> FALSE, start |-> 0, next |-> 0, group1 |-> <<>>]
        ELSE LET i == Min(starts)
                 j == Min(EndsFrom(s, i + Len(PS1_BEGIN)))
             IN  [found |-> TRUE, start |-> i, next |-> j + Len(PS1_END),
                  group1 |-> SubSeq(s, i + Len(PS1_BEGIN), j - 1)]

\* every match of the regex in s, in text order
RECURSIVE FindIter(_, _)
FindIter(s, pos) ==
    LET m == NextMatch(s, pos)
    IN  IF m.found THEN <<m>> \o FindIter(s, m.next) ELSE <<>>

\* ------------------------------------------------------------------------
\* matches_ps1_metadata: the body of its for loop for one match
\* ------------------------------------------------------------------------

\* what one iteration does: whether it appends the match, what it logs
\* (level and message), and the exception that leaves the loop, "" if none
Iteration(append, level, msg, exc) ==
    [append |-> append, level |-> level, msg |-> msg, exc |-> exc]

\* RepairBranch without the inner try: a repaired text that does not parse
\* lets json.JSONDecodeError leave the loop
RepairBranch_NoInnerTry(json_str) ==
    LET fixed_json == _fix_malformed_ps1_json(json_str)
    IN  IF fixed_json.ok
        THEN IF loads(fixed_json.s).ok
             THEN Iteration(TRUE, "debug", "fixed", "")
             ELSE Iteration(FALSE, "", "", "JSONDecodeError")
        ELSE Iteration(FALSE, "warning", "could_not_fix", "")

\* lines 67-81: the inner try and its except json.JSONDecodeError
RepairBranch(json_str) ==
    LET fixed_json == _fix_malformed_ps1_json(json_str)
    IN  IF fixed_json.ok
        THEN IF loads(fixed_json.s).ok
             THEN Iteration(TRUE, "debug", "fixed", "")
             ELSE Iteration(FALSE, "warning", "failed_to_parse", "")
        ELSE Iteration(FALSE, "warning", "could_not_fix", "")

\* ScanBody without the check for unexpanded template tokens
ScanBody_NoTemplateCheck(match) ==
    LET json_str == strip(match.group1)
    IN  IF loads(json_str).ok THEN Iteration(TRUE, "", "", "")
        ELSE RepairBranch(json_str)

\* lines 58-81
ScanBody(match) ==
    LET json_str == strip(match.group1)
    IN  IF loads(json_str).ok THEN Iteration(TRUE, "", "", "")
        ELSE IF HasTemplateToken(json_str)
        THEN Iteration(FALSE, "debug", "template", "")
        ELSE RepairBranch(json_str)

\* ------------------------------------------------------------------------
\* State
\* ------------------------------------------------------------------------

VARIABLES
    pc,         \* where the modelled call stands
    shape,      \* the lines a generated block was assembled from
    json_str,   \* argument of _fix_malformed_ps1_json
    fixed,      \* its return value
    string,     \* argument of matches_ps1_metadata
    pos,        \* where finditer searches next
    matches,    \* the list matches_ps1_metadata builds and returns
    log,        \* logger calls of the scan, one record per call
    escaped,    \* exception that left matches_ps1_metadata, "" if none
    match,      \* argument of from_ps1_match
    result,     \* outcome of from_ps1_match
    content,    \* argument of _maybe_truncate
    max_size,   \* argument of _maybe_truncate
    once,       \* _maybe_truncate(content, max_size)
    twice,      \* _maybe_truncate(once, max_size)
    heap,       \* CmdOutputMetadata instances, by identity
    observations, \* CmdOutputObservation records constructed so far
    rendered    \* to_agent_observation() of the record rendered last

vars == <<pc, shape, json_str, fixed, string, pos, matches, log, escaped,
          match, result, content, max_size, once, twice, heap, observations,
          rendered>>

fixVars == <<shape, json_str, fixed>>
scanVars == <<string, pos, matches, log, escaped>>
matchVars == <<match, result>>
truncVars == <<content, max_size, once, twice>>
obsVars == <<heap, observations, rendered>>

NoFix == [ok |-> FALSE, s |-> <<>>]
NoMatch == [found |-> FALSE, start |-> 0, next |-> 0, group1 |-> <<>>]
NoResult == [exc |-> "", md |-> DefaultMetadata, warnings |-> 0]

IdleFix == shape = <<>> /\ json_str = <<>> /\ fixed = NoFix
IdleScan ==
    /\ string = <<>> /\ pos = 1 /\ matches = <<>> /\ log = <<>> /\ escaped = ""
IdleMatch == match = NoMatch /\ result = NoResult
IdleTrunc == content = <<>> /\ max_size = 0 /\ once = <<>> /\ twice = <<>>
IdleObs == heap = <<>> /\ observations = <<>> /\ rendered = <<>>

\* ------------------------------------------------------------------------
\* Generated PS1 interiors: a brace on its own line, key: value lines, a
\* brace on its own line
\* ------------------------------------------------------------------------

Quoted(s) == <<QUOTE>> \o s \o <<QUOTE>>

\* one body line as written by the shell
BodyLine(l, comma) ==
    l.indent \o l.key \o <<":", " ">> \o l.value \o (IF comma THEN <<",">> ELSE <<>>)

\* the block with a comma after every body line but the last
RECURSIVE BodyText(_, _)
BodyText(lines, lastComma) ==
    IF lines = <<>> THEN <<>>
    ELSE <<NL>> \o BodyLine(Head(lines), Len(lines) > 1 \/ lastComma)
         \o BodyText(Tail(lines), lastComma)

Block(lines) == <<"{">> \o BodyText(lines, FALSE) \o <<NL, "}">>

\* all sequences over S of length lo..hi
SeqsOf(S, lo, hi) == UNION {[1..n -> S] : n \in lo..hi}

\* --- inputs of the repair heuristic -------------------------------------

FixKeys == { pid_key, Quoted(<<"u">>) }

FixValues ==
    { <<"1", "2", "3">>, <<"0">>, <<"0", "0", "7">>, <<"n", "u", "l", "l">>,
      <<"a", "l", "i", "c", "e">>, Quoted(<<"b", "o", "b">>),
      <<"a", QUOTE, "b">>, <<"a", BACKSLASH, "b">>, <<"-", "1">>,
      <<"/", "a", ":", "b">> }

FixIndents == { <<>>, <<" ", " ">> }

FixShapes ==
    {[i \in 1..Len(kv) |-> [indent |-> ind, key |-> kv[i][1], value |-> kv[i][2]]] :
        kv \in SeqsOf(FixKeys \X FixValues, 0, MaxBodyLines), ind \in FixIndents}

\* ------------------------------------------------------------------------
\* Specification of the repair heuristic
\* ------------------------------------------------------------------------

InitFix ==
    /\ pc = "fix_ready"
    /\ shape \in FixShapes
    /\ json_str = Block(shape)
    /\ fixed = NoFix
    /\ IdleScan /\ IdleMatch /\ IdleTrunc /\ IdleObs

\* a call of _fix_malformed_ps1_json(json_str)
FixCall ==
    /\ pc = "fix_ready"
    /\ fixed' = _fix_malformed_ps1_json(json_str)
    /\ pc' = "fix_done"
    /\ UNCHANGED <<shape, json_str, scanVars, matchVars, truncVars, obsVars>>

NextFix == FixCall

SpecFix == InitFix /\ [][NextFix]_vars

\* --- C6 ------------------------------------------------------------------

\* no double quote, backslash or control character
Plain(s) == \A i \in 1..Len(s) : s[i] \notin ({QUOTE, BACKSLASH} \cup ControlChars)

IsQuotedText(s) == Len(s) >= 2 /\ s[1] = QUOTE /\ s[Len(s)] = QUOTE
Inner(s) == SubSeq(s, 2, Len(s) - 1)

\* the key a body line names
KeyText(k) == IF IsQuotedText(k) THEN Inner(k) ELSE k

\* the value a body line gives: null, an integer, the string inside the
\* quotes, or else the string of its text
ExpectedValue(v) ==
    IF v = <<"n", "u", "l", "l">> THEN JNull
    ELSE IF isdigit(v) THEN JNum(DecVal(v), <<>>)
    ELSE IF IsQuotedText(v) THEN JStr(Inner(v))
    ELSE JStr(v)

ExpectedMembers(sh) ==
    [i \in 1..Len(sh) |-> [k |-> KeyText(sh[i].key), v |-> ExpectedValue(sh[i].value)]]

LeadingSpace(line) == SubSeq(line, 1, Len(line) - Len(lstrip(line)))

\* the repaired text parses to the object with the block's keys and values,
\* line by line with the indentation and the trailing comma of the input
RepairedAsClaimed ==
    /\ fixed.ok
    /\ loads(fixed.s).ok
    /\ loads(fixed.s).v = JObj(ExpectedMembers(shape))
    /\ LET inp == split(json_str, NL)
           out == split(fixed.s, NL)
       IN  /\ Len(out) = Len(inp)
           /\ \A i \in 1..Len(inp) :
                /\ LeadingSpace(out[i]) = LeadingSpace(inp[i])
                /\ endswith(out[i], <<",">>) <=> endswith(inp[i], <<",">>)

CleanKey(k) ==
    /\ ~Contains(k, <<":">>)
    /\ IF IsQuotedText(k) THEN Plain(Inner(k)) ELSE Plain(k)
    /\ strip(k) = k

CleanValue(v) ==
    /\ strip(v) = v
    /\ ~endswith(v, <<",">>)
    /\ \/ v = <<"n", "u", "l", "l">>
       \/ isdigit(v) /\ (v = <<"0">> \/ v[1] # "0")
       \/ IsQuotedText(v) /\ Plain(Inner(v))
       \/ ~isdigit(v) /\ Plain(v)

CleanShape(sh) == \A i \in 1..Len(sh) : CleanKey(sh[i].key) /\ CleanValue(sh[i].value)

\* C6 as stated: every block of the targeted shape is repaired to text that
\* strictly parses to the object with the same keys and values, indentation
\* and trailing commas kept.
C6_EveryBlockRepaired == pc = "fix_done" => RepairedAsClaimed

\* C6 amended: the same for every block of the targeted shape whose keys hold
\* no colon, whose keys and values hold no double quote (but an enclosing
\* pair), backslash or control character, and whose all-digit values have no
\* leading zero.
C6_CleanBlockRepaired == (pc = "fix_done" /\ CleanShape(shape)) => RepairedAsClaimed

\* C6 witness: a repaired two-line block with an unquoted key, an unquoted
\* word and an integer
C6_Witness ==
    /\ pc = "fix_done"
    /\ Len(shape) = 2
    /\ shape[1].key = pid_key
    /\ shape[1].value = <<"a", "l", "i", "c", "e">>
    /\ shape[2].value = <<"1", "2", "3">>
    /\ shape[1].indent = <<" ", " ">>
    /\ CleanShape(shape)
    /\ fixed.ok
    /\ fixed.s # json_str

\* ------------------------------------------------------------------------
\* Specification of from_ps1_match on one match
\* ------------------------------------------------------------------------

L(key, value) == [indent |-> <<>>, key |-> key, value |-> value]

MatchLines ==
    { L(Quoted(pid_key), Quoted(<<"1", "2", "3">>)),
      L(Quoted(pid_key), <<"4", "2">>),
      L(Quoted(pid_key), Quoted(<<"i", "n", "f">>)),
      L(Quoted(pid_key), Quoted(<<"n", "a", "n">>)),
      L(pid_key, <<"a", QUOTE, "b">>),
      L(Quoted(exit_code_key), Quoted(<<"0">>)),
      L(Quoted(exit_code_key), Quoted(<<"n", "u", "l", "l">>)),
      L(Quoted(exit_code_key), Quoted(<<"1", ".", "5">>)),
      L(Quoted(exit_code_key), <<"n", "u", "l", "l">>),
      L(exit_code_key, <<"2">>),
      L(username_key, <<"a", "l", "i", "c", "e">>),
      L(Quoted(username_key), <<"7">>) }

\* interiors that are not a brace-delimited block of lines
OtherInteriors ==
    { <<>>, <<"5">>, Quoted(<<"x">>), <<"n", "u", "l", "l">>, <<"[", "1", "]">>,
      <<"[">> \o Quoted(pid_key) \o <<"]">>, <<"f", "o", "o">>,
      <<"{">> \o pid_key \o <<":", " ", "1", "}">> }

MatchInteriors ==
    {<<"{">> \o BodyText(ls, c) \o <<NL, "}">> :
        ls \in SeqsOf(MatchLines, 0, MaxBodyLines), c \in BOOLEAN}
    \cup OtherInteriors

\* the text a prompt holding interior appears as
Wrap(interior) == PS1_BEGIN \o <<NL>> \o interior \o <<NL>> \o PS1_END

InitMatch ==
    /\ pc = "match_ready"
    /\ match \in {NextMatch(Wrap(i), 1) : i \in MatchInteriors}
    /\ result = NoResult
    /\ IdleFix /\ IdleScan /\ IdleTrunc /\ IdleObs

\* a call of CmdOutputMetadata.from_ps1_match(match)
FromPs1Match ==
    /\ pc = "match_ready"
    /\ result' = from_ps1_match(match)
    /\ pc' = "match_done"
    /\ UNCHANGED <<match, fixVars, scanVars, truncVars, obsVars>>

NextMatchSpec == FromPs1Match

SpecMatch == InitMatch /\ [][NextMatchSpec]_vars

\* the two parses from_ps1_match may try on the interior of match
StrictParse(m) == loads(strip(m.group1))
Repair(m) == _fix_malformed_ps1_json(strip(m.group1))
RepairParses(m) == Repair(m).ok /\ loads(Repair(m).s).ok

\* the JSON value from_ps1_match works on, when one of the parses succeeds
ParsedValue(m) == IF StrictParse(m).ok THEN StrictParse(m).v ELSE loads(Repair(m).s).v

ParsesToObject(m) ==
    /\ StrictParse(m).ok \/ RepairParses(m)
    /\ ParsedValue(m).t = "dict"

\* --- C3 ------------------------------------------------------------------

\* the raw value parsed as a floating-point number and truncated, or -1
ClaimedInt(d, key) ==
    IF key \notin Keys(d) THEN Unknown
    ELSE IF ParseFloat(StrOf(Lookup(d, key))).kind = "finite"
    THEN ParseFloat(StrOf(Lookup(d, key))).n
    ELSE Unknown

\* a string field copied through, unset when the key is absent
ClaimedOptStr(d, key) ==
    IF key \in Keys(d) /\ Lookup(d, key).t = "str" THEN Some(Lookup(d, key).s) ELSE None

\* C3 as stated: a match whose interior parses to a JSON object is converted
\* without an error; pid and exit_code are the truncated float parse of the
\* raw value or -1, an absent key leaves the default, other fields are copied.
C3_CoercionNeverFails ==
    (pc = "match_done" /\ ParsesToObject(match)) =>
        LET d == ParsedValue(match)
        IN  /\ result.exc = ""
            /\ result.md.pid = ClaimedInt(d, pid_key)
            /\ result.md.exit_code = ClaimedInt(d, exit_code_key)
            /\ result.md.username = ClaimedOptStr(d, username_key)
            /\ result.md.hostname = ClaimedOptStr(d, hostname_key)
            /\ result.md.working_dir = ClaimedOptStr(d, working_dir_key)
            /\ result.md.py_interpreter_path = ClaimedOptStr(d, py_interpreter_path_key)

\* --- C4 ------------------------------------------------------------------

\* C4: when the strict parse fails and the repair fails too (no repair, or a
\* repair that does not parse), from_ps1_match raises a ValueError; it
\* returns a record only when one of the two parses succeeded.
C4_HardFailure ==
    pc = "match_done" =>
        /\ (~StrictParse(match).ok /\ ~RepairParses(match)) => result.exc \in ValueErrors
        /\ result.exc = "" => (StrictParse(match).ok \/ RepairParses(match))

\* C4 witness: the repair returned text, the text does not parse, and the
\* call raised
C4_Witness ==
    /\ pc = "match_done"
    /\ ~StrictParse(match).ok
    /\ Repair(match).ok
    /\ ~loads(Repair(match).s).ok
    /\ result.exc = "JSONDecodeError"

\* ------------------------------------------------------------------------
\* Specification of the scan: matches_ps1_metadata(string), then
\* from_ps1_match on a match it returned
\* ------------------------------------------------------------------------

OneLine(key, value) == <<"{", NL>> \o key \o <<":", " ">> \o value \o <<NL, "}">>

ScanInteriors ==
    { OneLine(Quoted(pid_key), Quoted(<<"7">>)),
      <<"5">>,
      OneLine(Quoted(username_key), Quoted(<<BACKSLASH, "u">>)),
      OneLine(Quoted(exit_code_key), Quoted(<<"$", "?">>)),
      OneLine(exit_code_key, <<"$", "?">>),
      OneLine(pid_key, <<"7">>),
      OneLine(pid_key, <<"a", QUOTE, "b">>),
      <<"f", "o", "o">>,
      OneLine(Quoted(pid_key), Quoted(<<"i", "n", "f">>)) }

\* what may stand between one prompt and the next
Separators == { <<>>, <<NL>> }

Segments == {sep \o Wrap(i) \o <<NL>> : sep \in Separators, i \in ScanInteriors}
            \cup {sep \o Wrap(i) : sep \in Separators, i \in {<<"5">>}}

RECURSIVE Concat(_)
Concat(ss) == IF ss = <<>> THEN <<>> ELSE Head(ss) \o Concat(Tail(ss))

ScanTexts == {Concat(ss) : ss \in SeqsOf(Segments, 0, MaxBlocks)}

InitScan ==
    /\ pc = "scan"
    /\ string \in ScanTexts
    /\ pos = 1
    /\ matches = <<>>
    /\ log = <<>>
    /\ escaped = ""
    /\ IdleFix /\ IdleMatch /\ IdleTrunc /\ IdleObs

\* one iteration of the for loop of matches_ps1_metadata
ScanCandidate ==
    /\ pc = "scan"
    /\ NextMatch(string, pos).found
    /\ LET m == NextMatch(string, pos)
           it == ScanBody(m)
       IN  /\ pos' = m.next
           /\ matches' = IF it.append /\ it.exc = "" THEN Append(matches, m) ELSE matches
           /\ log' = IF it.level = "" THEN log
                     ELSE Append(log, [level |-> it.level, msg |-> it.msg,
                                       text |-> strip(m.group1)])
           /\ escaped' = it.exc
           /\ pc' = IF it.exc = "" THEN "scan" ELSE "scan_raised"
    /\ UNCHANGED <<string, fixVars, matchVars, truncVars, obsVars>>

\* finditer is exhausted: return matches
ScanReturn ==
    /\ pc = "scan"
    /\ ~NextMatch(string, pos).found
    /\ pc' = "returned"
    /\ UNCHANGED <<scanVars, fixVars, matchVars, truncVars, obsVars>>

\* the caller hands one returned match to from_ps1_match
ConvertReturned ==
    /\ pc = "returned"
    /\ \E k \in 1..Len(matches) :
        /\ match' = matches[k]
        /\ result' = from_ps1_match(matches[k])
    /\ pc' = "converted"
    /\ UNCHANGED <<scanVars, fixVars, truncVars, obsVars>>

NextScan == ScanCandidate \/ ScanReturn \/ ConvertReturned

SpecScan == InitScan /\ [][NextScan]_vars

\* --- C1 ------------------------------------------------------------------

\* the terminal outcome of a candidate, decided in the order of the claim
Outcome(m) ==
    IF StrictParse(m).ok THEN "accepted"
    ELSE IF HasTemplateToken(strip(m.group1)) THEN "skipped-template"
    ELSE IF RepairParses(m) THEN "accepted-repaired"
    ELSE "skipped-unrecoverable"

Candidates == FindIter(string, 1)

IsAccepted(m) == Outcome(m) \in {"accepted", "accepted-repaired"}

\* the level of the diagnostic an outcome draws, "" for none
OutcomeLevel(o) ==
    CASE o = "accepted" -> ""
      [] o = "skipped-template" -> "debug"
      [] o = "accepted-repaired" -> "debug"
      [] o = "skipped-unrecoverable" -> "warning"

\* the diagnostics of a run of candidates: level and interior, in order
RECURSIVE Diagnostics(_)
Diagnostics(cands) ==
    IF cands = <<>> THEN <<>>
    ELSE (IF OutcomeLevel(Outcome(Head(cands))) = "" THEN <<>>
          ELSE << <<OutcomeLevel(Outcome(Head(cands))), strip(Head(cands).group1)>> >>)
         \o Diagnostics(Tail(cands))

InMatches(m) == \E k \in 1..Len(matches) : matches[k] = m

Warned(m) ==
    \E k \in 1..Len(log) : log[k].level = "warning" /\ log[k].text = strip(m.group1)

\* C5 as stated: a candidate whose interior contains an unexpanded token is
\* not returned and draws no warning, whatever else the interior holds.
C5_TokenAlwaysExcluded ==
    pc = "returned" =>
        \A k \in 1..Len(Candidates) :
            HasTemplateToken(strip(Candidates[k].group1)) =>
                ~InMatches(Candidates[k]) /\ ~Warned(Candidates[k])

\* C5 amended: a candidate whose interior does not strictly parse and
\* contains an unexpanded token is not returned and draws no warning.
C5_UnparsedTokenExcluded ==
    pc = "returned" =>
        \A k \in 1..Len(Candidates) :
            (~StrictParse(Candidates[k]).ok
                /\ HasTemplateToken(strip(Candidates[k].group1))) =>
                ~InMatches(Candidates[k]) /\ ~Warned(Candidates[k])

\* C5 witness: a returned scan that dropped a candidate with a token which
\* the repair would have made parse
C5_Witness ==
    /\ pc = "returned"
    /\ \E k \in 1..Len(Candidates) :
        /\ ~StrictParse(Candidates[k]).ok
        /\ HasTemplateToken(strip(Candidates[k].group1))
        /\ RepairParses(Candidates[k])
        /\ ~InMatches(Candidates[k])
    /\ matches # <<>>

\* --- C10 -----------------------------------------------------------------

\* C10: every match the scan returns is converted by from_ps1_match without
\* an error.
C10_ReturnedMatchesConvert == pc = "converted" => result.exc = ""

\* ------------------------------------------------------------------------
\* CmdOutputObservation._maybe_truncate
\* ------------------------------------------------------------------------

MAX_CMD_OUTPUT_SIZE == 30000

\* '\n[... Observation truncated due to length ...]\n'
TRUNCATION_MARKER ==
    <<NL, "[", ".", ".", ".", " ", "O", "b", "s", "e", "r", "v", "a", "t",
      "i", "o", "n", " ", "t", "r", "u", "n", "c", "a", "t", "e", "d", " ",
      "d", "u", "e", " ", "t", "o", " ", "l", "e", "n", "g", "t", "h", " ",
      ".", ".", ".", "]", NL>>

\* the slice s[:n] for n >= 0
SliceTo(s, n) == SubSeq(s, 1, IF n < Len(s) THEN n ELSE Len(s))

\* the slice s[-n:] for n >= 0: -0 is 0, so s[-0:] is all of s
SliceFromEnd(s, n) ==
    IF n = 0 THEN s
    ELSE SubSeq(s, IF n < Len(s) THEN Len(s) - n + 1 ELSE 1, Len(s))

_maybe_truncate(c, m) ==
    IF Len(c) <= m THEN c
    ELSE LET half == m \div 2
         IN  SliceTo(c, half) \o TRUNCATION_MARKER \o SliceFromEnd(c, half)

ContentChars == {"a", "b"}

InitTrunc ==
    /\ pc = "trunc_ready"
    /\ content \in SeqsOf(ContentChars, 0, MaxContentLen)
    /\ max_size \in 0..MaxMaxSize
    /\ once = <<>>
    /\ twice = <<>>
    /\ IdleFix /\ IdleScan /\ IdleMatch /\ IdleObs

\* _maybe_truncate(content, max_size)
Truncate ==
    /\ pc = "trunc_ready"
    /\ once' = _maybe_truncate(content, max_size)
    /\ pc' = "trunc_once"
    /\ UNCHANGED <<content, max_size, twice, fixVars, scanVars, matchVars, obsVars>>

\* _maybe_truncate of the previous output, with the same max_size
TruncateAgain ==
    /\ pc = "trunc_once"
    /\ twice' = _maybe_truncate(once, max_size)
    /\ pc' = "trunc_twice"
    /\ UNCHANGED <<content, max_size, once, fixVars, scanVars, matchVars, obsVars>>

NextTrunc == Truncate \/ TruncateAgain

SpecTrunc == InitTrunc /\ [][NextTrunc]_vars

\* --- C2 ------------------------------------------------------------------

FirstChars(s, n) == SubSeq(s, 1, n)
LastChars(s, n) == SubSeq(s, Len(s) - n + 1, Len(s))

\* C2: the output is never longer than 2*(max_size div 2) plus the marker,
\* and for content longer than max_size it is the first max_size div 2
\* characters, the marker line and the last max_size div 2 characters.
C2_OutputBounded ==
    pc \in {"trunc_once", "trunc_twice"} =>
        LET half == max_size \div 2
        IN  /\ Len(once) <= 2 * half + Len(TRUNCATION_MARKER)
            /\ Len(content) > max_size =>
                 once = FirstChars(content, half) \o TRUNCATION_MARKER
                        \o LastChars(content, half)

\* --- C7 ------------------------------------------------------------------

\* C7: truncating the output again with the same max_size changes nothing,
\* and content no longer than max_size is returned as it is.
C7_Idempotent ==
    /\ pc = "trunc_twice" => twice = once
    /\ (pc # "trunc_ready" /\ Len(content) <= max_size) => once = content

\* ------------------------------------------------------------------------
\* CmdOutputObservation: construction and to_agent_observation
\*
\* heap[i] is the CmdOutputMetadata instance of identity i; a record of
\* observations refers to its metadata by identity.
\* ------------------------------------------------------------------------

WORKING_DIR_LABEL ==
    <<NL, "[", "C", "u", "r", "r", "e", "n", "t", " ", "w", "o", "r", "k",
      "i", "n", "g", " ", "d", "i", "r", "e", "c", "t", "o", "r", "y", ":",
      " ">>

INTERPRETER_LABEL ==
    <<NL, "[", "P", "y", "t", "h", "o", "n", " ", "i", "n", "t", "e", "r",
      "p", "r", "e", "t", "e", "r", ":", " ">>

EXIT_CODE_LABEL ==
    <<NL, "[", "C", "o", "m", "m", "a", "n", "d", " ", "f", "i", "n", "i",
      "s", "h", "e", "d", " ", "w", "i", "t", "h", " ", "e", "x", "i", "t",
      " ", "c", "o", "d", "e", " ">>

\* to_agent_observation with the exit code line before the other two
to_agent_observation_ExitFirst(c, md) ==
    md.prefix \o c \o md.suffix
    \o (IF md.exit_code # Unknown
        THEN EXIT_CODE_LABEL \o IntStr(md.exit_code) \o <<"]">> ELSE <<>>)
    \o (IF md.working_dir.some /\ md.working_dir.s # <<>>
        THEN WORKING_DIR_LABEL \o md.working_dir.s \o <<"]">> ELSE <<>>)
    \o (IF md.py_interpreter_path.some /\ md.py_interpreter_path.s # <<>>
        THEN INTERPRETER_LABEL \o md.py_interpreter_path.s \o <<"]">> ELSE <<>>)

\* to_agent_observation of a record with content c and metadata md; a str
\* is true when it is not None and not empty
to_agent_observation(c, md) ==
    md.prefix \o c \o md.suffix
    \o (IF md.working_dir.some /\ md.working_dir.s # <<>>
        THEN WORKING_DIR_LABEL \o md.working_dir.s \o <<"]">> ELSE <<>>)
    \o (IF md.py_interpreter_path.some /\ md.py_interpreter_path.s # <<>>
        THEN INTERPRETER_LABEL \o md.py_interpreter_path.s \o <<"]">> ELSE <<>>)
    \o (IF md.exit_code # Unknown
        THEN EXIT_CODE_LABEL \o IntStr(md.exit_code) \o <<"]">> ELSE <<>>)

\* the legacy keyword arguments: absent, or a value
Absent == [given |-> FALSE, n |-> 0]
Given(n) == [given |-> TRUE, n |-> n]

\* lines 192-196 on the instance the new record refers to
LegacyOverride(md, exit_code, command_id) ==
    [md EXCEPT !.exit_code = IF exit_code.given THEN exit_code.n ELSE @,
               !.pid = IF command_id.given THEN command_id.n ELSE @]

\* CmdOutputObservation.__init__ with metadata None or a dict: the record
\* gets a new instance, built from fields (the defaults for None)
ConstructFresh(c, hidden, fields, exit_code, command_id) ==
    /\ Len(observations) < MaxObs
    /\ Len(heap) < MaxMeta
    /\ heap' = Append(heap, LegacyOverride(fields, exit_code, command_id))
    /\ observations' =
        Append(observations,
               [content |-> IF hidden THEN c ELSE _maybe_truncate(c, MAX_CMD_OUTPUT_SIZE),
                hidden |-> hidden, metadata |-> Len(heap) + 1])

\* CmdOutputObservation.__init__ with metadata a CmdOutputMetadata instance:
\* `metadata or CmdOutputMetadata()` is that very instance
ConstructWithInstance(c, hidden, id, exit_code, command_id) ==
    /\ Len(observations) < MaxObs
    /\ heap' = [heap EXCEPT ![id] = LegacyOverride(@, exit_code, command_id)]
    /\ observations' =
        Append(observations,
               [content |-> IF hidden THEN c ELSE _maybe_truncate(c, MAX_CMD_OUTPUT_SIZE),
                hidden |-> hidden, metadata |-> id])

Contents == { <<>>, <<"o", "k">> }

OptStrings(s) == {None, Some(<<>>), Some(s)}

\* field values a caller may pass for rendering
RenderFields ==
    [exit_code : {Unknown, 0, 12}, pid : {Unknown}, username : {None},
     hostname : {None}, working_dir : OptStrings(<<"/", "w">>),
     py_interpreter_path : OptStrings(<<"/", "p">>),
     prefix : {<<>>, <<">">>}, suffix : {<<>>, <<"<">>}]

\* --- rendering of one record --------------------------------------------

InitRender ==
    /\ pc = "obs"
    /\ heap = <<>>
    /\ observations = <<>>
    /\ rendered = <<>>
    /\ IdleFix /\ IdleScan /\ IdleMatch /\ IdleTrunc

\* CmdOutputObservation(content, command, metadata={...})
ConstructFromDict ==
    /\ pc = "obs"
    /\ observations = <<>>
    /\ \E c \in Contents, hidden \in BOOLEAN, fields \in RenderFields :
        ConstructFresh(c, hidden, fields, Absent, Absent)
    /\ UNCHANGED <<pc, rendered, fixVars, scanVars, matchVars, truncVars>>

\* to_agent_observation() of a constructed record
Render ==
    /\ pc = "obs"
    /\ \E k \in 1..Len(observations) :
        rendered' = to_agent_observation(observations[k].content,
                                         heap[observations[k].metadata])
    /\ pc' = "rendered"
    /\ UNCHANGED <<heap, observations, fixVars, scanVars, matchVars, truncVars>>

NextRender == ConstructFromDict \/ Render

SpecRender == InitRender /\ [][NextRender]_vars

\* --- C8 ------------------------------------------------------------------

Annotation(label, present, text) ==
    IF present THEN label \o text \o <<"]">> ELSE <<>>

\* the record rendered: SpecRender constructs one
RenderedMetadata == heap[observations[1].metadata]

\* C8 as stated: prefix + content + suffix, then the working directory line
\* iff working_dir is set, the interpreter line iff py_interpreter_path is
\* set, the exit code line iff exit_code is not -1, and nothing else.
C8_AnnotationIffSet ==
    pc = "rendered" =>
        LET md == RenderedMetadata
        IN  rendered =
                md.prefix \o observations[1].content \o md.suffix
                \o Annotation(WORKING_DIR_LABEL, md.working_dir.some, md.working_dir.s)
                \o Annotation(INTERPRETER_LABEL, md.py_interpreter_path.some,
                              md.py_interpreter_path.s)
                \o Annotation(EXIT_CODE_LABEL, md.exit_code # Unknown,
                              IntStr(md.exit_code))

\* C8 amended: the working directory line and the interpreter line appear
\* iff the field is set to a non-empty string; the rest as stated.
C8_AnnotationIffNonEmpty ==
    pc = "rendered" =>
        LET md == RenderedMetadata
        IN  rendered =
                md.prefix \o observations[1].content \o md.suffix
                \o Annotation(WORKING_DIR_LABEL,
                              md.working_dir.some /\ md.working_dir.s # <<>>,
                              md.working_dir.s)
                \o Annotation(INTERPRETER_LABEL,
                              md.py_interpreter_path.some
                                  /\ md.py_interpreter_path.s # <<>>,
                              md.py_interpreter_path.s)
                \o Annotation(EXIT_CODE_LABEL, md.exit_code # Unknown,
                              IntStr(md.exit_code))

\* C8 witness: a rendering with a working directory line and an exit code
\* line and, the interpreter path being the empty string, no interpreter line
C8_Witness ==
    /\ pc = "rendered"
    /\ RenderedMetadata.working_dir = Some(<<"/", "w">>)
    /\ RenderedMetadata.py_interpreter_path = Some(<<>>)
    /\ RenderedMetadata.exit_code = 12
    /\ rendered = RenderedMetadata.prefix \o observations[1].content
                  \o RenderedMetadata.suffix
                  \o WORKING_DIR_LABEL \o <<"/", "w", "]">>
                  \o EXIT_CODE_LABEL \o <<"1", "2", "]">>

\* --- construction over a shared heap ------------------------------------

\* instances a caller may hold: the defaults, or a parsed prompt's values
CallerMetadata ==
    { DefaultMetadata,
      [DefaultMetadata EXCEPT !.exit_code = 0, !.pid = 7] }

OverrideValues == {Absent, Given(1)}

InitObs ==
    /\ pc = "obs"
    /\ heap = <<>>
    /\ observations = <<>>
    /\ rendered = <<>>
    /\ IdleFix /\ IdleScan /\ IdleMatch /\ IdleTrunc

\* the caller creates a CmdOutputMetadata instance of its own
NewMetadata ==
    /\ pc = "obs"
    /\ Len(heap) < MaxMeta
    /\ \E md \in CallerMetadata : heap' = Append(heap, md)
    /\ UNCHANGED <<pc, observations, rendered, fixVars, scanVars, matchVars, truncVars>>

\* CmdOutputObservation(content, command, metadata=None or a dict, **kwargs)
ConstructDefault ==
    /\ pc = "obs"
    /\ \E c \in Contents, fields \in CallerMetadata,
          exit_code \in OverrideValues, command_id \in OverrideValues :
        ConstructFresh(c, FALSE, fields, exit_code, command_id)
    /\ UNCHANGED <<pc, rendered, fixVars, scanVars, matchVars, truncVars>>

\* CmdOutputObservation(content, command, metadata=instance, **kwargs)
ConstructShared ==
    /\ pc = "obs"
    /\ \E c \in Contents, id \in 1..Len(heap),
          exit_code \in OverrideValues, command_id \in OverrideValues :
        ConstructWithInstance(c, FALSE, id, exit_code, command_id)
    /\ UNCHANGED <<pc, rendered, fixVars, scanVars, matchVars, truncVars>>

NextObs == NewMetadata \/ ConstructDefault \/ ConstructShared

SpecObs == InitObs /\ [][NextObs]_vars

\* --- C9 ------------------------------------------------------------------

\* C9: no two output records share a metadata record, and a construction
\* leaves the exit_code and pid of every record constructed before it as
\* they were.
C9_OwnMetadata ==
    [][ /\ \A i, j \in 1..Len(observations') :
            i # j => observations'[i].metadata # observations'[j].metadata
        /\ \A k \in 1..Len(observations) :
            /\ heap'[observations[k].metadata].exit_code
                   = heap[observations[k].metadata].exit_code
            /\ heap'[observations[k].metadata].pid
                   = heap[observations[k].metadata].pid ]_vars

====
